---- MODULE Spec2Model ----
(***************************************************************************)
(* Worker engine of Additional-Code/atlas: kafkaClient / noopClient         *)
(* (package messaging) consumed by worker.Engine (package worker).          *)
(*                                                                         *)
(* The broker is one partition of one topic: a message is identified by    *)
(* its offset, the consumer group has one committed offset, and the shared *)
(* kafka.Reader hands out the message at its read position.                *)
(***************************************************************************)
EXTENDS Integers, Sequences, FiniteSets, TLC

(* ------------------------------ bounds --------------------------------- *)
\* largest configured worker concurrency explored
MaxConcurrency == 2
\* number of messages the producers append to the log
MaxMsgs == 2
\* number of consumer-group rebalances (redeliveries from the committed offset)
MaxRebalances == 1
\* number of calls of Engine.start and Engine.stop together
MaxCalls == 3
\* number of worker loops spawned over all starts
MaxLoops == 2
\* number of non-cancellation errors one loop gets back from Client.Consume
MaxConsumeErrors == 6

(* ------------------------------ durations ------------------------------ *)
\* seconds; consumeLoop: backoff := time.Second
BackoffFloor == 1
\* seconds; consumeLoop: if backoff < 30*time.Second { backoff *= 2 }
BackoffCeiling == 30
\* seconds; kafkaClient.Consume: time.Sleep(time.Second) after a failed fetch
FetchRetryPause == 1

(* --------------------------- configuration ----------------------------- *)
\* cfg.Messaging.Kafka.Topic: the single topic the client publishes to and reads
KafkaTopic == "orders.events"
OtherTopic == "unknown.topic"

NilHandler == "nil"
Handlers == {"h1", "h2"}
NoHandler == "none"
NoMsg == -1
NoEnv == [Given |-> FALSE]
NoError == "nil"

Reg(t, h) == [Topic |-> t, Handler |-> h]

\* Params.Registrations lists the engine is constructed with
RegistrationLists ==
    { << >>,
      << Reg(KafkaTopic, "h1") >>,
      << Reg(OtherTopic, "h1") >>,
      << Reg("", "h1"), Reg(KafkaTopic, NilHandler) >>,
      << Reg(KafkaTopic, "h1"), Reg(KafkaTopic, "h2") >> }

ConcurrencyValues == 0 .. MaxConcurrency

Configs ==
    [ Enabled : BOOLEAN, WorkersEnabled : BOOLEAN,
      Concurrency : ConcurrencyValues, Driver : {"kafka", "noop"} ]

VARIABLES
    cfg,            \* Engine.cfg (config.Config, the messaging part)
    client,         \* Engine.client: "kafka", "noop" or "ext" (another Client)
    clientTopic,    \* the topic field of the client (what Topic() returns)
    env,            \* the environment config.New reads (NoEnv: cfg is given as is)
    boot,           \* construction: "env", "config", "ready" or "failed"
    bootErr,        \* the error construction ended with, or NoError
    params,         \* Params.Registrations handed to NewEngine
    registrations,  \* Engine.registrations: topic -> handler
    cancel,         \* Engine.cancel: 0 = nil, g = cancel func of run-context g
    wg,             \* Engine.wg: 0 = nil, g = wait group of start g
    cancelled,      \* run-contexts that have been cancelled
    starts,         \* calls of Engine.start so far
    startCtxDone,   \* start calls whose context (the ctx parameter) is done
    startResults,   \* results of the start calls, in order
    loopGen,        \* per worker loop: the run-context (start) it belongs to
    loopWg,         \* per worker loop: the wait group its deferred e.wg.Done()
                    \* releases (0 = the goroutine has not run yet)
    pc,             \* per worker loop: position in consumeLoop / Consume
    cur,            \* per worker loop: offset of the message in hand
    fetched,        \* per worker loop: offsets returned by FetchMessage, in order
    delivered,      \* per worker loop: dispatch-closure calls, in order (offset,
                    \* handler, result, and the context the call was given)
    commits,        \* per worker loop: CommitMessages calls, in order
    backoff,        \* per worker loop: consumeLoop's backoff, in seconds
    timer,          \* per worker loop: length of the wait it is in (0 = none)
    errs,           \* per worker loop: non-cancellation errors Consume returned
    callStart,      \* per worker loop: Len(delivered) when Consume was called
    logEnd,         \* broker: number of messages appended to the partition
    readPos,        \* kafka.Reader: offset of the next message FetchMessage returns
    committed,      \* broker: committed offset of the consumer group
    rebalances,     \* broker: rebalances so far
    stopPc,         \* Engine.stop: "idle" or "waiting" (in the select)
    stopCtxDone,    \* the context of the latest stop call is done
    stopResults,    \* results of the stop calls that returned, in order
    pubResults      \* results of the Publish calls, in order

vars == << cfg, client, params, registrations, cancel, wg, cancelled, starts,
           startResults, loopGen, loopWg, pc, cur, fetched, delivered, commits, backoff,
           timer, errs, callStart, logEnd, readPos, committed, rebalances,
           stopPc, stopCtxDone, stopResults, pubResults, clientTopic, env, boot,
           bootErr, startCtxDone >>

bootVars == << clientTopic, env, boot, bootErr >>
engineVars == << cfg, client, params, registrations, bootVars, startCtxDone >>
lifeVars == << cancel, wg, cancelled, starts, startResults >>
waitVars == << backoff, timer, errs, callStart >>
loopVars == << loopGen, loopWg, pc, cur, fetched, delivered, commits, waitVars >>
brokerVars == << logEnd, readPos, committed, rebalances >>
stopVars == << stopPc, stopCtxDone, stopResults >>

(* ------------------------------ helpers -------------------------------- *)
Loops == DOMAIN pc

\* mutant: a topic that is already registered keeps its first handler
RECURSIVE BuildRegistry_FirstWins(_, _)
BuildRegistry_FirstWins(regs, reg) ==
    IF regs = << >> THEN reg
    ELSE LET r == Head(regs) IN
         IF r.Topic = "" \/ r.Handler = NilHandler \/ r.Topic \in DOMAIN reg
         THEN BuildRegistry_FirstWins(Tail(regs), reg)
         ELSE BuildRegistry_FirstWins(Tail(regs),
                [t \in (DOMAIN reg) \cup {r.Topic} |->
                    IF t = r.Topic THEN r.Handler ELSE reg[t]])

\* mutant: NewEngine stores every registration, valid or not
RECURSIVE BuildRegistry_KeepsInvalid(_, _)
BuildRegistry_KeepsInvalid(regs, reg) ==
    IF regs = << >> THEN reg
    ELSE LET r == Head(regs) IN
         BuildRegistry_KeepsInvalid(Tail(regs),
                [t \in (DOMAIN reg) \cup {r.Topic} |->
                    IF t = r.Topic THEN r.Handler ELSE reg[t]])

\* NewEngine: later registrations of a topic overwrite earlier ones, and
\* registrations with an empty topic or a nil handler are skipped
RECURSIVE BuildRegistry(_, _)
BuildRegistry(regs, reg) ==
    IF regs = << >> THEN reg
    ELSE LET r == Head(regs) IN
         IF r.Topic = "" \/ r.Handler = NilHandler
         THEN BuildRegistry(Tail(regs), reg)
         ELSE BuildRegistry(Tail(regs),
                [t \in (DOMAIN reg) \cup {r.Topic} |->
                    IF t = r.Topic THEN r.Handler ELSE reg[t]])

NewEngine(regs) == BuildRegistry(regs, << >>)

\* NewClient: the noop client when messaging is disabled or the driver is noop
ClientKind == IF ~cfg.Enabled \/ cfg.Driver = "noop" THEN "noop" ELSE "kafka"

\* mutant: each loop has a context of its own and stop cancels that of the first
CtxDone_OnlyFirstLoop(w) ==
    /\ loopGen[w] \in cancelled
    /\ \A v \in DOMAIN loopGen : loopGen[v] = loopGen[w] => w <= v

\* mutant: the run-context is derived from the context start was given
CtxDone_FromStartContext(w) ==
    loopGen[w] \in cancelled \/ loopGen[w] \in startCtxDone

\* ctx.Err() != nil for the run-context of loop w
CtxDone(w) == loopGen[w] \in cancelled

\* mutant: the clamp tests c < 0, so a concurrency of 0 spawns no loop
EffectiveConcurrency_StrictClamp(c) == IF c < 0 THEN 1 ELSE c

\* Engine.start lines 99-102
EffectiveConcurrency(c) == IF c <= 0 THEN 1 ELSE c

\* mutant: the empty-registry check is missing
StartSkipped_NoRegistryCheck ==
    \/ ~cfg.Enabled
    \/ ~cfg.WorkersEnabled

\* Engine.start lines 88-97: the start is a no-op
StartSkipped ==
    \/ ~cfg.Enabled
    \/ ~cfg.WorkersEnabled
    \/ Cardinality(DOMAIN registrations) = 0

(* ------------------------------- Init ---------------------------------- *)
Init ==
    /\ cfg \in Configs
    /\ params \in RegistrationLists
    /\ registrations = NewEngine(params)
    /\ client = ClientKind
    /\ cancel = 0
    /\ wg = 0
    /\ cancelled = {}
    /\ starts = 0
    /\ startResults = << >>
    /\ loopGen = << >>
    /\ loopWg = << >>
    /\ pc = << >>
    /\ cur = << >>
    /\ fetched = << >>
    /\ delivered = << >>
    /\ commits = << >>
    /\ backoff = << >>
    /\ timer = << >>
    /\ errs = << >>
    /\ callStart = << >>
    /\ logEnd = 0
    /\ readPos = 0
    /\ committed = 0
    /\ rebalances = 0
    /\ stopPc = "idle"
    /\ stopCtxDone = FALSE
    /\ startCtxDone = {}
    /\ stopResults = << >>
    /\ pubResults = << >>
    /\ clientTopic = KafkaTopic
    /\ env = NoEnv
    /\ boot = "ready"
    /\ bootErr = NoError

(* ----------------------------- Engine.start ---------------------------- *)
\* calls of Engine.stop so far (returned or still waiting)
StopCalls == Len(stopResults) + (IF stopPc = "waiting" THEN 1 ELSE 0)

RECURSIVE Repeat(_, _)
Repeat(x, n) == IF n <= 0 THEN << >> ELSE << x >> \o Repeat(x, n - 1)

Start ==
    /\ starts + StopCalls < MaxCalls
    /\ stopPc = "idle"
    /\ StartSkipped \/ Len(pc) + EffectiveConcurrency(cfg.Concurrency) <= MaxLoops
    /\ starts' = starts + 1
    /\ startResults' = Append(startResults, "nil")
    /\ IF StartSkipped
       THEN UNCHANGED << cancel, wg, cancelled, loopVars >>
       ELSE LET n == EffectiveConcurrency(cfg.Concurrency)
                g == starts + 1
            IN /\ cancel' = g
               /\ wg' = g
               /\ loopGen' = loopGen \o Repeat(g, n)
               /\ loopWg' = loopWg \o Repeat(0, n)
               /\ pc' = pc \o Repeat("top", n)
               /\ cur' = cur \o Repeat(NoMsg, n)
               /\ fetched' = fetched \o Repeat(<< >>, n)
               /\ delivered' = delivered \o Repeat(<< >>, n)
               /\ commits' = commits \o Repeat(<< >>, n)
               /\ backoff' = backoff \o Repeat(BackoffFloor, n)
               /\ timer' = timer \o Repeat(0, n)
               /\ errs' = errs \o Repeat(0, n)
               /\ callStart' = callStart \o Repeat(0, n)
               /\ UNCHANGED cancelled
    /\ UNCHANGED << engineVars, pubResults, brokerVars, stopVars >>

(* ----------------------------- Engine.stop ------------------------------ *)
\* mutant: stop looks at the caller's context before it looks at e.cancel
StopCall_CtxFirst(expired) ==
    /\ stopPc = "idle"
    /\ starts + StopCalls < MaxCalls
    /\ IF expired
       THEN /\ stopResults' = Append(stopResults, "ctxerr")
            /\ stopCtxDone' = expired
            /\ UNCHANGED << cancelled, stopPc >>
       ELSE IF cancel = 0
       THEN /\ stopResults' = Append(stopResults, "nil")
            /\ stopCtxDone' = expired
            /\ UNCHANGED << cancelled, stopPc >>
       ELSE /\ cancelled' = cancelled \cup {cancel}
            /\ stopPc' = "waiting"
            /\ stopCtxDone' = expired
            /\ UNCHANGED stopResults
    /\ UNCHANGED << engineVars, pubResults, cancel, wg, starts, startResults, loopVars, brokerVars >>

\* mutant: a stop after the run-context was cancelled fails instead of waiting again
StopCall_OnlyOnce(expired) ==
    /\ stopPc = "idle"
    /\ starts + StopCalls < MaxCalls
    /\ IF cancel = 0
       THEN /\ stopResults' = Append(stopResults, "nil")
            /\ stopCtxDone' = expired
            /\ UNCHANGED << cancelled, stopPc >>
       ELSE IF cancel \in cancelled
       THEN /\ stopResults' = Append(stopResults, "ctxerr")
            /\ stopCtxDone' = expired
            /\ UNCHANGED << cancelled, stopPc >>
       ELSE /\ cancelled' = cancelled \cup {cancel}
            /\ stopPc' = "waiting"
            /\ stopCtxDone' = expired
            /\ UNCHANGED stopResults
    /\ UNCHANGED << engineVars, pubResults, cancel, wg, starts, startResults, loopVars, brokerVars >>

\* stop called with a context that is already done (expired) or still live
StopCall(expired) ==
    /\ stopPc = "idle"
    /\ starts + StopCalls < MaxCalls
    /\ IF cancel = 0
       THEN /\ stopResults' = Append(stopResults, "nil")
            /\ stopCtxDone' = expired
            /\ UNCHANGED << cancelled, stopPc >>
       ELSE /\ cancelled' = cancelled \cup {cancel}
            /\ stopPc' = "waiting"
            /\ stopCtxDone' = expired
            /\ UNCHANGED stopResults
    /\ UNCHANGED << engineVars, pubResults, cancel, wg, starts, startResults, loopVars, brokerVars >>

\* mutant: the wait ends with the first wg.Done() instead of the last
WaitGroupDone_FirstDone == \E w \in Loops : loopGen[w] = wg /\ pc[w] = "done"

\* counter of the wait group e.wg points to: one Add(1) per loop of the start
\* that made it, one Done() per returned goroutine whose deferred call holds it
\* (below zero is where Done() panics)
WaitGroupCounter ==
    Cardinality({ w \in Loops : loopGen[w] = wg })
        - Cardinality({ w \in Loops : loopWg[w] = wg /\ pc[w] = "done" })

\* e.wg.Wait() has returned: the counter of the wait group is down to zero
WaitGroupDone == WaitGroupCounter <= 0

\* case <-done
StopReturnDone ==
    /\ stopPc = "waiting"
    /\ WaitGroupDone
    /\ stopResults' = Append(stopResults, "nil")
    /\ stopPc' = "idle"
    /\ UNCHANGED << engineVars, pubResults, lifeVars, loopVars, brokerVars, stopCtxDone >>

\* the caller's deadline elapses while stop waits
StopCtxExpire ==
    /\ stopPc = "waiting"
    /\ ~stopCtxDone
    /\ stopCtxDone' = TRUE
    /\ UNCHANGED << engineVars, pubResults, lifeVars, loopVars, brokerVars, stopPc, stopResults >>

\* mutant: stop gives up with an error of its own while the caller's context is live
StopReturnCtxErr_OwnTimeout ==
    /\ stopPc = "waiting"
    /\ stopResults' = Append(stopResults, "ctxerr")
    /\ stopPc' = "idle"
    /\ UNCHANGED << engineVars, pubResults, lifeVars, loopVars, brokerVars, stopCtxDone >>

\* mutant: the select has no ctx.Done case, stop waits for the wait group
StopReturnCtxErr_WaitsFurther ==
    /\ stopPc = "waiting"
    /\ stopCtxDone
    /\ WaitGroupDone
    /\ stopResults' = Append(stopResults, "ctxerr")
    /\ stopPc' = "idle"
    /\ UNCHANGED << engineVars, pubResults, lifeVars, loopVars, brokerVars, stopCtxDone >>

\* case <-ctx.Done(): return ctx.Err()
StopReturnCtxErr ==
    /\ stopPc = "waiting"
    /\ stopCtxDone
    /\ stopResults' = Append(stopResults, "ctxerr")
    /\ stopPc' = "idle"
    /\ UNCHANGED << engineVars, pubResults, lifeVars, loopVars, brokerVars, stopCtxDone >>

(* --------------------------- Engine.consumeLoop ------------------------ *)
\* mutant: the for loop calls Consume without looking at the run-context
LoopTop_NoContextCheck(w) ==
    /\ pc[w] = "top"
    /\ pc' = [pc EXCEPT ![w] = IF client = "noop" THEN "noopwait" ELSE "fetch"]
    /\ callStart' = [callStart EXCEPT ![w] = Len(delivered[w])]
    /\ loopWg' = [loopWg EXCEPT ![w] = IF @ = 0 THEN wg ELSE @]
    /\ UNCHANGED << engineVars, pubResults, lifeVars, backoff, timer, errs, loopGen, cur, fetched,
                    delivered, commits, brokerVars, stopVars >>

\* top of the for loop: return when the run-context is done, else call Consume.
\* The first run of the goroutine evaluates its defer e.wg.Done() (start lines
\* 111-112): the wait group it releases is the one e.wg points to at that time.
LoopTop(w) ==
    /\ pc[w] = "top"
    /\ pc' = [pc EXCEPT ![w] =
                IF CtxDone(w) THEN "done"
                ELSE IF client = "noop" THEN "noopwait" ELSE "fetch"]
    /\ callStart' = [callStart EXCEPT ![w] =
                       IF CtxDone(w) THEN @ ELSE Len(delivered[w])]
    /\ loopWg' = [loopWg EXCEPT ![w] = IF @ = 0 THEN wg ELSE @]
    /\ UNCHANGED << engineVars, pubResults, lifeVars, backoff, timer, errs, loopGen, cur, fetched,
                    delivered, commits, brokerVars, stopVars >>

\* mutant: Consume of the noop client does not wait and returns nil at once
NoopConsumeReturn_Immediate(w) ==
    /\ pc[w] = "noopwait"
    /\ pc' = [pc EXCEPT ![w] = "done"]
    /\ UNCHANGED << engineVars, pubResults, lifeVars, waitVars, loopGen, loopWg, cur, fetched,
                    delivered, commits, brokerVars, stopVars >>

\* noopClient.Consume: <-ctx.Done(); return ctx.Err(), and consumeLoop returns
NoopConsumeReturn(w) ==
    /\ pc[w] = "noopwait"
    /\ CtxDone(w)
    /\ pc' = [pc EXCEPT ![w] = "done"]
    /\ UNCHANGED << engineVars, pubResults, lifeVars, waitVars, loopGen, loopWg, cur, fetched, delivered, commits,
                    brokerVars, stopVars >>

(* --------------------------- kafkaClient.Consume ----------------------- *)
\* mutant: the next fetch is started while the callback is still running
FetchMessage_Pipelined(w) ==
    /\ pc[w] \in {"fetch", "handler"}
    /\ readPos < logEnd
    /\ cur' = [cur EXCEPT ![w] = readPos]
    /\ fetched' = [fetched EXCEPT ![w] = Append(@, readPos)]
    /\ readPos' = readPos + 1
    /\ pc' = [pc EXCEPT ![w] = "dispatch"]
    /\ UNCHANGED << engineVars, pubResults, lifeVars, waitVars, loopGen, loopWg, delivered, commits,
                    logEnd, committed, rebalances, stopVars >>

\* mutant: the reader skips the message after the one it returns
FetchMessage_SkipNext(w) ==
    /\ pc[w] = "fetch"
    /\ readPos < logEnd
    /\ cur' = [cur EXCEPT ![w] = readPos]
    /\ fetched' = [fetched EXCEPT ![w] = Append(@, readPos)]
    /\ readPos' = readPos + 2
    /\ pc' = [pc EXCEPT ![w] = "dispatch"]
    /\ UNCHANGED << engineVars, pubResults, lifeVars, waitVars, loopGen, loopWg, delivered, commits,
                    logEnd, committed, rebalances, stopVars >>

\* mutant: the reader is locked while any handler runs
FetchMessage_Serialized(w) ==
    /\ pc[w] = "fetch"
    /\ \A v \in Loops : pc[v] # "handler"
    /\ readPos < logEnd
    /\ cur' = [cur EXCEPT ![w] = readPos]
    /\ fetched' = [fetched EXCEPT ![w] = Append(@, readPos)]
    /\ readPos' = readPos + 1
    /\ pc' = [pc EXCEPT ![w] = "dispatch"]
    /\ UNCHANGED << engineVars, pubResults, lifeVars, waitVars, loopGen, loopWg, delivered, commits,
                    logEnd, committed, rebalances, stopVars >>

\* FetchMessage returns the message at the reader's position
FetchMessage(w) ==
    /\ pc[w] = "fetch"
    /\ readPos < logEnd
    /\ cur' = [cur EXCEPT ![w] = readPos]
    /\ fetched' = [fetched EXCEPT ![w] = Append(@, readPos)]
    /\ readPos' = readPos + 1
    /\ pc' = [pc EXCEPT ![w] = "dispatch"]
    /\ UNCHANGED << engineVars, pubResults, lifeVars, waitVars, loopGen, loopWg, delivered, commits,
                    logEnd, committed, rebalances, stopVars >>

\* mutant: the cancellation is handled like any other fetch error (pause, retry)
FetchCancelled_TreatedAsTransient(w) ==
    /\ pc[w] = "fetch"
    /\ CtxDone(w)
    /\ pc' = [pc EXCEPT ![w] = "sleep"]
    /\ timer' = [timer EXCEPT ![w] = FetchRetryPause]
    /\ UNCHANGED << engineVars, pubResults, lifeVars, backoff, errs, callStart, loopGen, loopWg, cur, fetched,
                    delivered, commits, brokerVars, stopVars >>

\* FetchMessage fails with context.Canceled: Consume returns it and the loop returns
FetchCancelled(w) ==
    /\ pc[w] = "fetch"
    /\ CtxDone(w)
    /\ pc' = [pc EXCEPT ![w] = "done"]
    /\ UNCHANGED << engineVars, pubResults, lifeVars, waitVars, loopGen, loopWg, cur, fetched, delivered, commits,
                    brokerVars, stopVars >>

\* mutant: a failed fetch is returned by Consume and ends consumeLoop
FetchFail_Fatal(w) ==
    /\ client = "kafka"
    /\ pc[w] = "fetch"
    /\ pc' = [pc EXCEPT ![w] = "done"]
    /\ UNCHANGED << engineVars, pubResults, lifeVars, waitVars, loopGen, loopWg, cur, fetched, delivered,
                    commits, brokerVars, stopVars >>

\* mutant: Consume returns the fetch error to consumeLoop, which backs off
FetchFail_ReturnedToLoop(w) ==
    /\ client = "kafka"
    /\ pc[w] = "fetch"
    /\ pc' = [pc EXCEPT ![w] = "backoff"]
    /\ errs' = [errs EXCEPT ![w] = @ + 1]
    /\ timer' = [timer EXCEPT ![w] = backoff[w]]
    /\ UNCHANGED << engineVars, pubResults, lifeVars, backoff, callStart, loopGen, loopWg, cur, fetched,
                    delivered, commits, brokerVars, stopVars >>

\* FetchMessage fails with another error: log, time.Sleep(time.Second), continue
FetchFail(w) ==
    /\ client = "kafka"
    /\ pc[w] = "fetch"
    /\ pc' = [pc EXCEPT ![w] = "sleep"]
    /\ timer' = [timer EXCEPT ![w] = FetchRetryPause]
    /\ UNCHANGED << engineVars, pubResults, lifeVars, backoff, errs, callStart, loopGen, loopWg, cur, fetched,
                    delivered, commits, brokerVars, stopVars >>

\* mutant: after the pause Consume gives up and returns the fetch error
SleepDone_GivesUp(w) ==
    /\ pc[w] = "sleep"
    /\ pc' = [pc EXCEPT ![w] = "done"]
    /\ timer' = [timer EXCEPT ![w] = 0]
    /\ UNCHANGED << engineVars, pubResults, lifeVars, backoff, errs, callStart, loopGen, loopWg, cur, fetched,
                    delivered, commits, brokerVars, stopVars >>

\* time.Sleep returns and the for loop of Consume continues with the next fetch
SleepDone(w) ==
    /\ pc[w] = "sleep"
    /\ pc' = [pc EXCEPT ![w] = "fetch"]
    /\ timer' = [timer EXCEPT ![w] = 0]
    /\ UNCHANGED << engineVars, pubResults, lifeVars, backoff, errs, callStart, loopGen, loopWg, cur, fetched,
                    delivered, commits, brokerVars, stopVars >>

\* mutant: a missing handler is reported as an error instead of nil
Dispatch_MissingIsError(w) ==
    /\ pc[w] = "dispatch"
    /\ IF KafkaTopic \in DOMAIN registrations
       THEN /\ delivered' = [delivered EXCEPT ![w] =
                  Append(@, [off |-> cur[w], h |-> registrations[KafkaTopic],
                             res |-> "run", ctx |-> loopGen[w]])]
            /\ pc' = [pc EXCEPT ![w] = "handler"]
            /\ UNCHANGED cur
       ELSE /\ delivered' = [delivered EXCEPT ![w] =
                  Append(@, [off |-> cur[w], h |-> NoHandler, res |-> "err",
                             ctx |-> loopGen[w]])]
            /\ pc' = [pc EXCEPT ![w] = "fetch"]
            /\ cur' = [cur EXCEPT ![w] = NoMsg]
    /\ UNCHANGED << engineVars, pubResults, lifeVars, waitVars, loopGen, loopWg, fetched, commits,
                    brokerVars, stopVars >>

\* mutant: the handler is started in a goroutine of its own and Consume goes on
Dispatch_Async(w) ==
    /\ pc[w] = "dispatch"
    /\ IF KafkaTopic \in DOMAIN registrations
       THEN /\ delivered' = [delivered EXCEPT ![w] =
                  Append(@, [off |-> cur[w], h |-> registrations[KafkaTopic],
                             res |-> "run", ctx |-> loopGen[w]])]
            /\ pc' = [pc EXCEPT ![w] = "fetch"]
       ELSE /\ delivered' = [delivered EXCEPT ![w] =
                  Append(@, [off |-> cur[w], h |-> NoHandler, res |-> "ok",
                             ctx |-> loopGen[w]])]
            /\ pc' = [pc EXCEPT ![w] = "commit"]
    /\ UNCHANGED << engineVars, pubResults, lifeVars, waitVars, loopGen, loopWg, cur, fetched,
                    commits, brokerVars, stopVars >>

\* mutant: the handler is called with context.Background() instead of msgCtx
Dispatch_BackgroundContext(w) ==
    /\ pc[w] = "dispatch"
    /\ IF KafkaTopic \in DOMAIN registrations
       THEN /\ delivered' = [delivered EXCEPT ![w] =
                  Append(@, [off |-> cur[w], h |-> registrations[KafkaTopic],
                             res |-> "run", ctx |-> 0])]
            /\ pc' = [pc EXCEPT ![w] = "handler"]
       ELSE /\ delivered' = [delivered EXCEPT ![w] =
                  Append(@, [off |-> cur[w], h |-> NoHandler, res |-> "ok",
                             ctx |-> loopGen[w]])]
            /\ pc' = [pc EXCEPT ![w] = "commit"]
    /\ UNCHANGED << engineVars, pubResults, lifeVars, waitVars, loopGen, loopWg, cur, fetched,
                    commits, brokerVars, stopVars >>

\* mutant: a topic without a handler gets a default handler registered on the fly
Dispatch_RegistersMissing(w) ==
    /\ pc[w] = "dispatch"
    /\ IF KafkaTopic \in DOMAIN registrations
       THEN /\ delivered' = [delivered EXCEPT ![w] =
                  Append(@, [off |-> cur[w], h |-> registrations[KafkaTopic],
                             res |-> "run", ctx |-> loopGen[w]])]
            /\ pc' = [pc EXCEPT ![w] = "handler"]
            /\ UNCHANGED registrations
       ELSE /\ delivered' = [delivered EXCEPT ![w] =
                  Append(@, [off |-> cur[w], h |-> NoHandler, res |-> "ok",
                             ctx |-> loopGen[w]])]
            /\ pc' = [pc EXCEPT ![w] = "commit"]
            /\ registrations' = [t \in (DOMAIN registrations) \cup {KafkaTopic} |->
                                    IF t = KafkaTopic THEN "h1" ELSE registrations[t]]
    /\ UNCHANGED << cfg, client, params, bootVars, startCtxDone, pubResults, lifeVars,
                    waitVars, loopGen, loopWg, cur, fetched, commits, brokerVars, stopVars >>

\* the dispatch closure of consumeLoop: look the topic up; without a handler it
\* returns nil, with one it invokes the handler
Dispatch(w) ==
    /\ pc[w] = "dispatch"
    /\ IF KafkaTopic \in DOMAIN registrations
       THEN /\ delivered' = [delivered EXCEPT ![w] =
                  Append(@, [off |-> cur[w], h |-> registrations[KafkaTopic],
                             res |-> "run", ctx |-> loopGen[w]])]
            /\ pc' = [pc EXCEPT ![w] = "handler"]
       ELSE /\ delivered' = [delivered EXCEPT ![w] =
                  Append(@, [off |-> cur[w], h |-> NoHandler, res |-> "ok",
                             ctx |-> loopGen[w]])]
            /\ pc' = [pc EXCEPT ![w] = "commit"]
    /\ UNCHANGED << engineVars, pubResults, lifeVars, waitVars, loopGen, loopWg, cur, fetched, commits,
                    brokerVars, stopVars >>

\* mutant: the commit is not skipped when the handler fails
HandlerReturn_CommitOnError(w, ok) ==
    /\ pc[w] = "handler"
    /\ delivered' = [delivered EXCEPT ![w][Len(delivered[w])].res =
                        IF ok THEN "ok" ELSE "err"]
    /\ pc' = [pc EXCEPT ![w] = "commit"]
    /\ UNCHANGED << engineVars, pubResults, lifeVars, waitVars, loopGen, loopWg, cur, fetched, commits,
                    brokerVars, stopVars >>

\* mutant: Consume returns the handler's error to consumeLoop, which backs off
HandlerReturn_ErrorReturned(w, ok) ==
    /\ pc[w] = "handler"
    /\ delivered' = [delivered EXCEPT ![w][Len(delivered[w])].res =
                        IF ok THEN "ok" ELSE "err"]
    /\ pc' = [pc EXCEPT ![w] = IF ok THEN "commit" ELSE "backoff"]
    /\ cur' = [cur EXCEPT ![w] = IF ok THEN @ ELSE NoMsg]
    /\ timer' = [timer EXCEPT ![w] = IF ok THEN @ ELSE backoff[w]]
    /\ UNCHANGED << engineVars, pubResults, lifeVars, backoff, errs, callStart, loopGen, loopWg, fetched,
                    commits, brokerVars, stopVars >>

\* the handler returns nil (ok) or an error; on error Consume skips the commit
HandlerReturn(w, ok) ==
    /\ pc[w] = "handler"
    /\ delivered' = [delivered EXCEPT ![w][Len(delivered[w])].res =
                        IF ok THEN "ok" ELSE "err"]
    /\ pc' = [pc EXCEPT ![w] = IF ok THEN "commit" ELSE "fetch"]
    /\ cur' = [cur EXCEPT ![w] = IF ok THEN @ ELSE NoMsg]
    /\ UNCHANGED << engineVars, pubResults, lifeVars, waitVars, loopGen, loopWg, fetched, commits,
                    brokerVars, stopVars >>

\* mutant: a failed commit is retried instead of logged
CommitMessages_RetryOnFailure(w, ok) ==
    /\ pc[w] = "commit"
    /\ Len(commits[w]) < 2 * (MaxMsgs + MaxRebalances)
    /\ commits' = [commits EXCEPT ![w] =
                      Append(@, [att |-> Len(delivered[w]), off |-> cur[w], ok |-> ok])]
    /\ committed' = IF ok THEN cur[w] + 1 ELSE committed
    /\ cur' = [cur EXCEPT ![w] = IF ok THEN NoMsg ELSE @]
    /\ pc' = [pc EXCEPT ![w] = IF ok THEN "fetch" ELSE "commit"]
    /\ UNCHANGED << engineVars, pubResults, lifeVars, waitVars, loopGen, loopWg, fetched, delivered,
                    logEnd, readPos, rebalances, stopVars >>

\* mutant: the commit names the first message the loop fetched, not the current one
CommitMessages_StaleMessage(w, ok) ==
    /\ pc[w] = "commit"
    /\ commits' = [commits EXCEPT ![w] =
                      Append(@, [att |-> Len(delivered[w]), off |-> fetched[w][1], ok |-> ok])]
    /\ committed' = IF ok THEN fetched[w][1] + 1 ELSE committed
    /\ cur' = [cur EXCEPT ![w] = NoMsg]
    /\ pc' = [pc EXCEPT ![w] = "fetch"]
    /\ UNCHANGED << engineVars, pubResults, lifeVars, waitVars, loopGen, loopWg, fetched, delivered,
                    logEnd, readPos, rebalances, stopVars >>

\* mutant: after a failed commit Consume hands the message to the handler again
CommitMessages_FailureRedispatches(w, ok) ==
    /\ pc[w] = "commit"
    /\ Len(commits[w]) < 2 * (MaxMsgs + MaxRebalances)
    /\ commits' = [commits EXCEPT ![w] =
                      Append(@, [att |-> Len(delivered[w]), off |-> cur[w], ok |-> ok])]
    /\ committed' = IF ok THEN cur[w] + 1 ELSE committed
    /\ cur' = [cur EXCEPT ![w] = IF ok THEN NoMsg ELSE @]
    /\ pc' = [pc EXCEPT ![w] = IF ok THEN "fetch" ELSE "dispatch"]
    /\ UNCHANGED << engineVars, pubResults, lifeVars, waitVars, loopGen, loopWg, fetched, delivered,
                    logEnd, readPos, rebalances, stopVars >>

\* CommitMessages(ctx, msg): on success the group's committed offset becomes
\* msg.Offset + 1; a failure is logged and the for loop continues
CommitMessages(w, ok) ==
    /\ pc[w] = "commit"
    /\ commits' = [commits EXCEPT ![w] =
                      Append(@, [att |-> Len(delivered[w]), off |-> cur[w], ok |-> ok])]
    /\ committed' = IF ok THEN cur[w] + 1 ELSE committed
    /\ cur' = [cur EXCEPT ![w] = NoMsg]
    /\ pc' = [pc EXCEPT ![w] = "fetch"]
    /\ UNCHANGED << engineVars, pubResults, lifeVars, waitVars, loopGen, loopWg, fetched, delivered,
                    logEnd, readPos, rebalances, stopVars >>

\* kafkaClient.Publish: WriteMessages appends one record to the topic
Publish ==
    /\ client # "noop"
    /\ logEnd < MaxMsgs
    /\ logEnd' = logEnd + 1
    /\ pubResults' = Append(pubResults, "nil")
    /\ UNCHANGED << engineVars, lifeVars, loopVars, readPos, committed, rebalances,
                    stopVars >>

\* noopClient.Publish: return nil
NoopPublish ==
    /\ client = "noop"
    /\ Len(pubResults) < MaxMsgs
    /\ pubResults' = Append(pubResults, "nil")
    /\ UNCHANGED << engineVars, lifeVars, loopVars, brokerVars, stopVars >>

\* the consumer group rebalances: the reader resumes from the committed offset,
\* which redelivers every fetched message above it
Rebalance ==
    /\ client # "noop"
    /\ rebalances < MaxRebalances
    /\ readPos > committed
    /\ readPos' = committed
    /\ rebalances' = rebalances + 1
    /\ UNCHANGED << engineVars, pubResults, lifeVars, loopVars, logEnd, committed, stopVars >>

Next ==
    \/ Start
    \/ \E expired \in BOOLEAN : StopCall(expired)
    \/ StopReturnDone
    \/ StopCtxExpire
    \/ StopReturnCtxErr
    \/ Publish
    \/ NoopPublish
    \/ Rebalance
    \/ \E w \in Loops : LoopTop(w)
    \/ \E w \in Loops : NoopConsumeReturn(w)
    \/ \E w \in Loops : FetchMessage(w)
    \/ \E w \in Loops : FetchCancelled(w)
    \/ \E w \in Loops : FetchFail(w)
    \/ \E w \in Loops : SleepDone(w)
    \/ \E w \in Loops : Dispatch(w)
    \/ \E w \in Loops : \E ok \in BOOLEAN : HandlerReturn(w, ok)
    \/ \E w \in Loops : \E ok \in BOOLEAN : CommitMessages(w, ok)

Spec == Init /\ [][Next]_vars

(* ------------- consumeLoop around a Client that returns errors ---------- *)
\* Client is an interface: Engine.client may be an implementation other than
\* the two NewClient builds. "ext" fetches, dispatches and commits like the
\* kafka client, but hands a failed fetch back to its caller.

\* consumeLoop: if backoff < 30*time.Second { backoff *= 2 }
NextBackoff(b) == IF b < BackoffCeiling THEN b * 2 ELSE b

\* Consume returns an error that is neither Canceled nor DeadlineExceeded:
\* consumeLoop logs it and enters the select on time.After(backoff)
ConsumeError(w) ==
    /\ client = "ext"
    /\ pc[w] = "fetch"
    /\ errs[w] < MaxConsumeErrors
    /\ pc' = [pc EXCEPT ![w] = "backoff"]
    /\ errs' = [errs EXCEPT ![w] = @ + 1]
    /\ timer' = [timer EXCEPT ![w] = backoff[w]]
    /\ UNCHANGED << engineVars, pubResults, lifeVars, backoff, callStart, loopGen, loopWg, cur, fetched,
                    delivered, commits, brokerVars, stopVars >>

\* case <-time.After(backoff): the backoff is doubled and the for loop restarts
BackoffElapsed(w) ==
    /\ pc[w] = "backoff"
    /\ pc' = [pc EXCEPT ![w] = "top"]
    /\ timer' = [timer EXCEPT ![w] = 0]
    /\ backoff' = [backoff EXCEPT ![w] = NextBackoff(@)]
    /\ UNCHANGED << engineVars, pubResults, lifeVars, errs, callStart, loopGen, loopWg, cur, fetched,
                    delivered, commits, brokerVars, stopVars >>

\* case <-ctx.Done(): return
BackoffCancelled(w) ==
    /\ pc[w] = "backoff"
    /\ CtxDone(w)
    /\ pc' = [pc EXCEPT ![w] = "done"]
    /\ timer' = [timer EXCEPT ![w] = 0]
    /\ UNCHANGED << engineVars, pubResults, lifeVars, backoff, errs, callStart, loopGen, loopWg, cur,
                    fetched, delivered, commits, brokerVars, stopVars >>

\* an engine with one registered handler on top of the "ext" client
InitExt ==
    /\ cfg \in { c \in Configs : c.Enabled /\ c.WorkersEnabled /\ c.Driver = "kafka" }
    /\ params = << Reg(KafkaTopic, "h1") >>
    /\ registrations = NewEngine(params)
    /\ client = "ext"
    /\ cancel = 0
    /\ wg = 0
    /\ cancelled = {}
    /\ starts = 0
    /\ startResults = << >>
    /\ loopGen = << >>
    /\ loopWg = << >>
    /\ pc = << >>
    /\ cur = << >>
    /\ fetched = << >>
    /\ delivered = << >>
    /\ commits = << >>
    /\ backoff = << >>
    /\ timer = << >>
    /\ errs = << >>
    /\ callStart = << >>
    /\ logEnd = 0
    /\ readPos = 0
    /\ committed = 0
    /\ rebalances = 0
    /\ stopPc = "idle"
    /\ stopCtxDone = FALSE
    /\ startCtxDone = {}
    /\ stopResults = << >>
    /\ pubResults = << >>
    /\ clientTopic = KafkaTopic
    /\ env = NoEnv
    /\ boot = "ready"
    /\ bootErr = NoError

NextExt ==
    \/ Start
    \/ \E expired \in BOOLEAN : StopCall(expired)
    \/ StopReturnDone
    \/ StopCtxExpire
    \/ StopReturnCtxErr
    \/ Publish
    \/ \E w \in Loops : LoopTop(w)
    \/ \E w \in Loops : FetchMessage(w)
    \/ \E w \in Loops : FetchCancelled(w)
    \/ \E w \in Loops : ConsumeError(w)
    \/ \E w \in Loops : BackoffElapsed(w)
    \/ \E w \in Loops : BackoffCancelled(w)
    \/ \E w \in Loops : Dispatch(w)
    \/ \E w \in Loops : \E ok \in BOOLEAN : HandlerReturn(w, ok)
    \/ \E w \in Loops : \E ok \in BOOLEAN : CommitMessages(w, ok)

SpecExt == InitExt /\ [][NextExt]_vars

(* ------------------------- history operators --------------------------- *)
Attempts(w) == 1 .. Len(delivered[w])

\* the Consume iteration of attempt k of loop w is over: the callback has
\* returned and, after a success, CommitMessages has been called
Completed(w, k) == k < Len(delivered[w]) \/ pc[w] \notin {"handler", "commit"}

\* the CommitMessages calls loop w made for its attempt k
CommitsOf(w, k) == { i \in 1 .. Len(commits[w]) : commits[w][i].att = k }

\* all delivery attempts / commit calls of offset o, over all loops
DeliveriesOf(o) ==
    { x \in UNION { {<< w, k >> : k \in Attempts(w)} : w \in Loops } :
        delivered[x[1]][x[2]].off = o }
CommitCallsOf(o) ==
    { x \in UNION { {<< w, i >> : i \in 1 .. Len(commits[w])} : w \in Loops } :
        commits[x[1]][x[2]].off = o }

Offsets == 0 .. (MaxMsgs - 1)

(* ------------------------------- claims -------------------------------- *)
\* C1: a delivery whose callback returns an error issues no commit; when an
\* offset is delivered exactly twice, failing once and succeeding once, exactly
\* one commit is issued for the offset, by the successful attempt.
C1_NoCommitOnHandlerError ==
    /\ \A w \in Loops : \A k \in Attempts(w) :
          delivered[w][k].res = "err" => CommitsOf(w, k) = {}
    /\ \A o \in Offsets : \A a \in DeliveriesOf(o) : \A b \in DeliveriesOf(o) :
          ( /\ DeliveriesOf(o) = {a, b}
            /\ delivered[a[1]][a[2]].res = "err"
            /\ delivered[b[1]][b[2]].res = "ok"
            /\ Completed(b[1], b[2]) )
          => /\ Cardinality(CommitCallsOf(o)) = 1
             /\ \A c \in CommitCallsOf(o) :
                   c[1] = b[1] /\ commits[c[1]][c[2]].att = b[2]

\* an offset failed once and, redelivered to the same loop, succeeded and was committed
C1_Witness ==
    \E w \in Loops : \E k1 \in Attempts(w) : \E k2 \in Attempts(w) :
        /\ k1 < k2
        /\ delivered[w][k1].off = delivered[w][k2].off
        /\ delivered[w][k1].res = "err"
        /\ delivered[w][k2].res = "ok"
        /\ CommitsOf(w, k2) # {}

\* C2 as stated: a successfully handled message gets exactly one commit and the
\* same loop never fetches it again.
C2_CommitOnceNeverRefetched ==
    \A w \in Loops : \A k \in Attempts(w) :
        (delivered[w][k].h # NoHandler /\ delivered[w][k].res = "ok" /\ Completed(w, k))
        => /\ Cardinality(CommitsOf(w, k)) = 1
           /\ \A j \in 1 .. Len(fetched[w]) : j # k => fetched[w][j] # delivered[w][k].off

\* C2 amended: a successfully handled delivery gets exactly one commit call, for
\* its own offset, and a loop fetches an offset twice only after a rebalance of
\* the consumer group (the engine itself never goes back).
C2_CommitCallOncePerSuccess ==
    /\ \A w \in Loops : \A k \in Attempts(w) :
          (delivered[w][k].res = "ok" /\ Completed(w, k))
          => /\ Cardinality(CommitsOf(w, k)) = 1
             /\ \A i \in CommitsOf(w, k) : commits[w][i].off = delivered[w][k].off
    /\ \A w \in Loops : \A j1 \in 1 .. Len(fetched[w]) : \A j2 \in 1 .. Len(fetched[w]) :
          (j1 # j2 /\ fetched[w][j1] = fetched[w][j2]) => rebalances > 0

\* a handler succeeded, its commit call failed, and after a rebalance the same
\* loop fetched the message again
C2_Witness ==
    \E w \in Loops : \E k \in Attempts(w) :
        /\ delivered[w][k].res = "ok"
        /\ delivered[w][k].h # NoHandler
        /\ \E i \in CommitsOf(w, k) : ~commits[w][i].ok
        /\ \E j \in 1 .. Len(fetched[w]) : j > k /\ fetched[w][j] = delivered[w][k].off

\* C3 (safety half): every offset below the group's committed offset has had a
\* dispatch that returned success.
C3_CommittedOnlyAfterSuccess ==
    \A o \in Offsets :
        o < committed => \E x \in DeliveriesOf(o) : delivered[x[1]][x[2]].res = "ok"

\* C4: per Consume call, the callback of every fetched message but the last has
\* returned, and its commit after a success has been attempted, before the next
\* fetch; at most one callback is in flight.
C4_SequentialHandling ==
    \A w \in Loops :
        /\ Len(fetched[w]) = Len(delivered[w]) + (IF pc[w] = "dispatch" THEN 1 ELSE 0)
        /\ \A k \in Attempts(w) :
              k < Len(delivered[w]) \/ pc[w] = "dispatch"
              => /\ delivered[w][k].res # "run"
                 /\ delivered[w][k].res = "ok" => CommitsOf(w, k) # {}
        /\ Cardinality({ k \in Attempts(w) : delivered[w][k].res = "run" })
              = (IF pc[w] = "handler" THEN 1 ELSE 0)

\* a loop has fetched a second message after its first callback succeeded
C4_Witness ==
    \E w \in Loops :
        /\ Len(fetched[w]) >= 2
        /\ delivered[w][1].res = "ok"
        /\ delivered[w][1].h # NoHandler

\* C5: a loop delivers in fetch order and commits in fetch order: the k-th
\* delivery is the k-th fetched message, every commit is for the delivery it
\* follows, and the commits of earlier successes precede it.
C5_FetchOrder ==
    \A w \in Loops :
        /\ \A k \in Attempts(w) : delivered[w][k].off = fetched[w][k]
        /\ \A i \in 1 .. Len(commits[w]) :
              LET c == commits[w][i] IN
              /\ c.att \in Attempts(w)
              /\ c.off = fetched[w][c.att]
              /\ \A j \in 1 .. Len(commits[w]) : j < i => commits[w][j].att < c.att
              /\ \A k \in Attempts(w) :
                    (k < c.att /\ delivered[w][k].res = "ok")
                    => \E j \in 1 .. (i - 1) : commits[w][j].att = k

\* one loop has committed two different messages
C5_Witness ==
    \E w \in Loops :
        /\ Len(commits[w]) >= 2
        /\ commits[w][1].off # commits[w][2].off

\* C6: one loop, a handler that has always succeeded, no failed commit and no
\* redelivery: the handler has been invoked for offsets 0, 1, ... in order, the
\* commits follow in the same order, and once the loop has caught up with the
\* log there are exactly as many invocations and commits as published messages.
NoFailures(w) ==
    /\ \A k \in Attempts(w) : delivered[w][k].res # "err"
    /\ \A i \in 1 .. Len(commits[w]) : commits[w][i].ok
    /\ rebalances = 0

C6_FifoScenario ==
    (Len(pc) = 1 /\ KafkaTopic \in DOMAIN registrations /\ NoFailures(1))
    => /\ \A k \in Attempts(1) :
             delivered[1][k].off = k - 1 /\ delivered[1][k].h # NoHandler
       /\ \A i \in 1 .. Len(commits[1]) : commits[1][i].off = i - 1
       /\ (pc[1] = "fetch" /\ readPos = logEnd)
             => Len(delivered[1]) = logEnd /\ Len(commits[1]) = logEnd

\* every published message was handled and committed by the single loop
C6_Witness ==
    /\ Len(pc) = 1
    /\ KafkaTopic \in DOMAIN registrations
    /\ NoFailures(1)
    /\ logEnd = MaxMsgs
    /\ Len(commits[1]) = MaxMsgs
    /\ pc[1] = "fetch"

\* C7: a message whose topic has no handler invokes no handler, the dispatch
\* returns success, CommitMessages is called for it, and the loop goes on to
\* the next fetch.
C7_NoHandlerCommitted ==
    \A w \in Loops :
        KafkaTopic \notin DOMAIN registrations
        => /\ pc[w] # "handler"
           /\ \A k \in Attempts(w) :
                 /\ delivered[w][k].h = NoHandler
                 /\ delivered[w][k].res = "ok"
                 /\ Completed(w, k)
                    => /\ Cardinality(CommitsOf(w, k)) = 1
                       /\ \A i \in CommitsOf(w, k) :
                             /\ commits[w][i].off = delivered[w][k].off
                             /\ (commits[w][i].ok /\ k = Len(delivered[w])
                                 /\ Cardinality(Loops) = 1)
                                => committed = delivered[w][k].off + 1

\* without a handler for the topic, a message was committed and the next one fetched
C7_Witness ==
    \E w \in Loops :
        /\ KafkaTopic \notin DOMAIN registrations
        /\ Len(fetched[w]) >= 2
        /\ \E i \in CommitsOf(w, 1) : commits[w][i].ok

\* C8: every start that is not skipped spawns max(1, configured concurrency) loops.
LoopsOf(g) == { w \in Loops : loopGen[w] = g }

C8_SpawnsConcurrencyLoops ==
    \A g \in 1 .. starts :
        Cardinality(LoopsOf(g)) =
            (IF StartSkipped THEN 0
             ELSE IF cfg.Concurrency >= 1 THEN cfg.Concurrency ELSE 1)

\* a start with configured concurrency 0 has spawned its single loop
C8_Witness ==
    /\ starts >= 1
    /\ ~StartSkipped
    /\ cfg.Concurrency <= 0
    /\ Cardinality(LoopsOf(1)) = 1

\* C9: with messaging disabled, the worker pool disabled or an empty registry,
\* start spawns no loop and leaves cancel and wg unset: Consume is never called.
C9_DisabledStartIsNoop ==
    (~cfg.Enabled \/ ~cfg.WorkersEnabled \/ DOMAIN registrations = {})
    => /\ Loops = {}
       /\ cancel = 0
       /\ wg = 0

\* start has returned for an enabled engine whose registry is empty
C9_Witness ==
    /\ starts >= 1
    /\ cfg.Enabled
    /\ cfg.WorkersEnabled
    /\ DOMAIN registrations = {}

\* C10: after a no-op start, stop never waits and every stop returns nil, also
\* when the caller's context is already done.
C10_StopAfterNoopStart ==
    (~cfg.Enabled \/ ~cfg.WorkersEnabled \/ DOMAIN registrations = {})
    => /\ stopPc = "idle"
       /\ \A i \in 1 .. Len(stopResults) : stopResults[i] = "nil"

\* stop has returned after a no-op start although its context was already done
C10_Witness ==
    /\ starts >= 1
    /\ (~cfg.Enabled \/ ~cfg.WorkersEnabled \/ DOMAIN registrations = {})
    /\ Len(stopResults) >= 1
    /\ stopCtxDone


(* C11: once the run-context of a worker loop is cancelled, no FetchMessage of
   the loop returns a message any more and the loop starts no handler
   invocation: nothing is added to what it fetched or to what it dispatched. *)
C11_NoNewWorkAfterCancel ==
    [][ \A w \in Loops :
          CtxDone(w) =>
            /\ fetched'[w] = fetched[w]
            /\ Len(delivered'[w]) = Len(delivered[w]) ]_vars

(* ----------------------- draining after a stop -------------------------- *)
\* non-cancellation errors one loop gets back from Consume while draining is explored
MaxDrainErrors == 1

\* an engine with one registered handler on each of the three clients
InitDrain ==
    /\ cfg \in { c \in Configs : c.Enabled /\ c.WorkersEnabled }
    /\ params = << Reg(KafkaTopic, "h1") >>
    /\ registrations = NewEngine(params)
    /\ client \in {ClientKind} \cup (IF ClientKind = "kafka" THEN {"ext"} ELSE {})
    /\ cancel = 0
    /\ wg = 0
    /\ cancelled = {}
    /\ starts = 0
    /\ startResults = << >>
    /\ loopGen = << >>
    /\ loopWg = << >>
    /\ pc = << >>
    /\ cur = << >>
    /\ fetched = << >>
    /\ delivered = << >>
    /\ commits = << >>
    /\ backoff = << >>
    /\ timer = << >>
    /\ errs = << >>
    /\ callStart = << >>
    /\ logEnd = 0
    /\ readPos = 0
    /\ committed = 0
    /\ rebalances = 0
    /\ stopPc = "idle"
    /\ stopCtxDone = FALSE
    /\ startCtxDone = {}
    /\ stopResults = << >>
    /\ pubResults = << >>
    /\ clientTopic = KafkaTopic
    /\ env = NoEnv
    /\ boot = "ready"
    /\ bootErr = NoError

NextDrain ==
    \/ Start
    \/ \E expired \in BOOLEAN : StopCall(expired)
    \/ StopReturnDone
    \/ StopCtxExpire
    \/ StopReturnCtxErr
    \/ Publish
    \/ \E w \in Loops : LoopTop(w)
    \/ \E w \in Loops : NoopConsumeReturn(w)
    \/ \E w \in Loops : FetchMessage(w)
    \/ \E w \in Loops : FetchCancelled(w)
    \/ \E w \in Loops : FetchFail(w)
    \/ \E w \in Loops : SleepDone(w)
    \/ \E w \in Loops : errs[w] < MaxDrainErrors /\ ConsumeError(w)
    \/ \E w \in Loops : BackoffElapsed(w)
    \/ \E w \in Loops : BackoffCancelled(w)
    \/ \E w \in Loops : Dispatch(w)
    \/ \E w \in Loops : \E ok \in BOOLEAN : HandlerReturn(w, ok)
    \/ \E w \in Loops : \E ok \in BOOLEAN : CommitMessages(w, ok)

\* what the Go scheduler and the premises of the drain give loop w: the
\* goroutine keeps running, time.Sleep and time.After fire, a handler and a
\* commit return, and a FetchMessage that keeps being called with a cancelled
\* context at some point returns the cancellation
LoopFairness(w) ==
    /\ WF_vars(w \in Loops /\ LoopTop(w))
    /\ WF_vars(w \in Loops /\ NoopConsumeReturn(w))
    /\ SF_vars(w \in Loops /\ FetchCancelled(w))
    /\ WF_vars(w \in Loops /\ SleepDone(w))
    /\ WF_vars(w \in Loops /\ BackoffElapsed(w))
    /\ WF_vars(w \in Loops /\ Dispatch(w))
    /\ WF_vars(w \in Loops /\ \E ok \in BOOLEAN : HandlerReturn(w, ok))
    /\ WF_vars(w \in Loops /\ \E ok \in BOOLEAN : CommitMessages(w, ok))

SpecDrain == InitDrain /\ [][NextDrain]_vars /\ \A w \in 1 .. MaxLoops : LoopFairness(w)

(* C12: once stop has cancelled the run-context of a worker loop, the loop
   eventually returns, wherever it is: blocked in the fetch, in the pause
   after a failed fetch, in the backoff wait of consumeLoop, in the noop
   client's wait or in a handler. *)
C12_DrainTerminates ==
    \A w \in 1 .. MaxLoops :
        (w \in Loops /\ CtxDone(w)) ~> (w \in Loops /\ pc[w] = "done")

\* a loop that handled a message has returned while stop still waits
C12_Witness ==
    \E w \in Loops :
        /\ pc[w] = "done"
        /\ CtxDone(w)
        /\ Len(delivered[w]) >= 1
        /\ stopPc = "waiting"

\* the stop call that returns in this step, and what it returns
StopReturns(res) ==
    /\ Len(stopResults') = Len(stopResults) + 1
    /\ stopResults'[Len(stopResults')] = res

(* C13: stop returns nil only when every worker loop spawned by the latest
   start has returned (start skipped or never called: there is no such loop):
   no step in which a stop call returns nil leaves such a loop running, and
   the wait of stop, whose end is what makes stop return nil, is over only in
   states where every such loop has returned. *)
C13_StopNilAfterLoopsReturned ==
    /\ [][ StopReturns("nil") =>
             \A w \in Loops : loopGen[w] = starts => pc[w] = "done" ]_vars
    /\ []((cancel # 0 /\ WaitGroupDone) => \A w \in LoopsOf(wg) : pc[w] = "done")

(* C14: when the caller's stop context is done while loops of the latest start
   are still running, stop can return at once, what it returns then is that
   context's error, and the step leaves every worker loop as it is. *)
C14_StopDeadline ==
    /\ [](stopPc = "waiting" /\ stopCtxDone => ENABLED StopReturnCtxErr)
    /\ [][ \A res \in {"nil", "ctxerr"} :
             (StopReturns(res) /\ stopPc = "waiting" /\ ~WaitGroupDone) =>
                /\ res = "ctxerr"
                /\ stopCtxDone
                /\ loopVars' = loopVars ]_vars

\* stop gave up on its deadline while a loop is still in a handler
C14_Witness ==
    /\ Len(stopResults) >= 1
    /\ stopResults[Len(stopResults)] = "ctxerr"
    /\ stopPc = "idle"
    /\ \E w \in LoopsOf(wg) : pc[w] = "handler" /\ CtxDone(w)

(* C15: the wait of consumeLoop after the k-th error in a row that Consume
   returned (not a cancellation) is min(2^(k-1), 30) seconds: 1 second at
   first, doubled after each error, never more than 30 seconds. *)
C15_BackoffSchedule ==
    \A w \in Loops :
        pc[w] = "backoff" =>
            LET doubled == 2 ^ (errs[w] - 1)
            IN timer[w] = IF doubled < BackoffCeiling THEN doubled ELSE BackoffCeiling

\* the Consume call loop w made last fetched a message and its handler succeeded
ProcessedInCall(w) ==
    \E k \in (callStart[w] + 1) .. Len(delivered[w]) : delivered[w][k].res = "ok"

(* C16: the backoff belongs to one run of failures: when the Consume call that
   just returned an error (not a cancellation) had fetched and processed a
   message, consumeLoop waits the floor of 1 second again. *)
C16_BackoffResetAfterSuccess ==
    \A w \in Loops :
        (pc[w] = "backoff" /\ ProcessedInCall(w)) => timer[w] = BackoffFloor

(* C17: a handler error stays inside Consume: in the step in which the handler
   of loop w returns an error the loop goes straight to the next fetch, with
   no pause, no backoff wait and its backoff value as it was. *)
C17_HandlerErrorAbsorbed ==
    [][ \A w \in Loops :
          ( /\ pc[w] = "handler"
            /\ pc'[w] # "handler"
            /\ delivered'[w][Len(delivered'[w])].res = "err" ) =>
              /\ pc'[w] = "fetch"
              /\ timer'[w] = 0
              /\ backoff'[w] = backoff[w]
              /\ errs'[w] = errs[w] ]_vars

\* after a handler error the loop has fetched the next message
C17_Witness ==
    \E w \in Loops :
        /\ Len(delivered[w]) = 1
        /\ delivered[w][1].res = "err"
        /\ Len(fetched[w]) = 2
        /\ pc[w] = "dispatch"
        /\ backoff[w] = BackoffFloor

(* C18: a worker loop that has returned had its run-context cancelled: no
   handler error, failed fetch or failed commit makes a loop return. *)
C18_ReturnedOnlyAfterCancel ==
    \A w \in Loops : pc[w] = "done" => CtxDone(w)

\* a loop that saw a handler error and a failed commit returned after the cancel
C18_Witness ==
    \E w \in Loops :
        /\ pc[w] = "done"
        /\ CtxDone(w)
        /\ \E k \in Attempts(w) : delivered[w][k].res = "err"
        /\ \E i \in 1 .. Len(commits[w]) : ~commits[w][i].ok

(* C19: Engine.start never returns an error, and a stop call returns either
   nil or, only when the caller's stop context is done, that context's error. *)
C19_OnlyStopDeadlineError ==
    /\ [](\A i \in 1 .. Len(startResults) : startResults[i] = "nil")
    /\ [][ Len(stopResults') > Len(stopResults) =>
             \/ StopReturns("nil")
             \/ StopReturns("ctxerr") /\ stopCtxDone /\ stopCtxDone' ]_vars

\* two starts returned and a stop gave the deadline error while a loop was running
C19_Witness ==
    /\ Len(startResults) = 2
    /\ stopResults = << "ctxerr" >>
    /\ \E w \in Loops : pc[w] \notin {"top", "done"}

(* C20: in kafkaClient.Consume a fetch that fails with anything but a
   cancellation is followed by a pause of exactly FetchRetryPause and then by
   another fetch, never by a return; a fetch that fails with the cancellation
   makes Consume return in that step, with no pause, handler call or commit. *)
C20_FetchFailureHandling ==
    [][ \A w \in Loops :
          /\ (pc[w] = "fetch" /\ pc'[w] \notin {"fetch", "dispatch", "done"}) =>
                pc'[w] = "sleep" /\ timer'[w] = FetchRetryPause
          /\ (pc[w] = "sleep" /\ pc'[w] # "sleep") =>
                pc'[w] = "fetch" /\ timer'[w] = 0
          /\ (pc[w] = "fetch" /\ pc'[w] = "done") =>
                /\ CtxDone(w)
                /\ timer'[w] = 0
                /\ delivered'[w] = delivered[w]
                /\ commits'[w] = commits[w] ]_vars

\* a loop that already handled a message pauses after a failed fetch
C20_Witness ==
    \E w \in Loops :
        /\ pc[w] = "sleep"
        /\ timer[w] = FetchRetryPause
        /\ Len(commits[w]) >= 1

\* the CommitMessages call loop w makes in this step fails
CommitFails(w) ==
    /\ Len(commits'[w]) = Len(commits[w]) + 1
    /\ ~commits'[w][Len(commits'[w])].ok

(* C21: a commit that fails after a successful handler stays inside Consume:
   in that step the loop goes to the next fetch without a pause, no handler
   is invoked again for the delivery, and the committed offset of the group
   is left where it was. *)
C21_CommitFailureAbsorbed ==
    [][ \A w \in Loops :
          CommitFails(w) =>
            /\ pc'[w] = "fetch"
            /\ timer'[w] = 0
            /\ delivered' = delivered
            /\ committed' = committed ]_vars

\* the message whose commit failed is redelivered to the loop after a rebalance
C21_Witness ==
    \E w \in Loops : \E i \in 1 .. Len(commits[w]) :
        /\ ~commits[w][i].ok
        /\ committed <= commits[w][i].off
        /\ Len(delivered[w]) > commits[w][i].att
        /\ delivered[w][commits[w][i].att + 1].off = commits[w][i].off

(* ------------------ construction: config.New and NewClient -------------- *)
\* most parts a KAFKA_BROKERS value splits into at its commas
MaxBrokerParts == 2

EnvUnset == "unset"
DefaultDriver == "kafka"
DefaultBrokers == << "127.0.0.1:9092" >>
DefaultGroup == "atlas-worker"

\* a part of KAFKA_BROKERS after strings.TrimSpace: empty or an address
BrokerParts == {"", "b1:9092"}
\* KAFKA_BROKERS: not set, or set to a value that splits into these parts
BrokerInputs ==
    { [set |-> FALSE, parts |-> << >>] } \cup
    { [set |-> TRUE, parts |-> ps] :
        ps \in UNION { [1 .. n -> BrokerParts] : n \in 1 .. MaxBrokerParts } }

\* the environment variables of the messaging section
Envs ==
    [ Driver : {EnvUnset, "kafka", "noop", "rabbit"},
      Enabled : BOOLEAN,
      Brokers : BrokerInputs,
      Topic : {EnvUnset, "", KafkaTopic},
      Group : {EnvUnset, "", DefaultGroup},
      Concurrency : {0, MaxConcurrency} ]

\* os.LookupEnv found the key: the value is taken as it is, even when empty
getEnv(v, defaultVal) == IF v = EnvUnset THEN defaultVal ELSE v

\* the non-empty parts of the value, or the defaults when there is none
getEnvAsStringSlice(v, defaults) ==
    IF ~v.set THEN defaults
    ELSE LET filtered == SelectSeq(v.parts, LAMBDA part : part # "")
         IN IF Len(filtered) > 0 THEN filtered ELSE defaults

\* Config{}: what config.New returns next to an error
ZeroConfig ==
    [ Enabled |-> FALSE, WorkersEnabled |-> FALSE, Concurrency |-> 0, Driver |-> "",
      Brokers |-> << >>, Topic |-> "", Group |-> "" ]

\* config.New, the messaging section: the Config and the error it returns
ConfigNew(e) ==
    LET enabled == e.Enabled
        driver == IF ~enabled THEN "noop" ELSE getEnv(e.Driver, DefaultDriver)
        brokers == getEnvAsStringSlice(e.Brokers, DefaultBrokers)
        topic == getEnv(e.Topic, KafkaTopic)
        group == getEnv(e.Group, DefaultGroup)
        built == [ Enabled |-> enabled, WorkersEnabled |-> TRUE,
                   Concurrency |-> EffectiveConcurrency(e.Concurrency),
                   Driver |-> driver, Brokers |-> brokers, Topic |-> topic,
                   Group |-> group ]
        fail(msg) == [ cfg |-> ZeroConfig, err |-> msg ]
    IN IF driver \notin {"kafka", "noop"} THEN fail("unsupported messaging driver")
       ELSE IF driver = "kafka" /\ Len(brokers) = 0
            THEN fail("KAFKA_BROKERS must be provided")
       ELSE IF driver = "kafka" /\ topic = ""
            THEN fail("KAFKA_TOPIC must be provided")
       ELSE IF driver = "kafka" /\ group = ""
            THEN fail("KAFKA_CONSUMER_GROUP must be provided")
       ELSE [ cfg |-> built, err |-> NoError ]

\* Config values handed to NewClient without config.New (a literal, as tests do)
DirectConfigs ==
    [ Enabled : BOOLEAN, WorkersEnabled : {TRUE}, Concurrency : {1},
      Driver : {"kafka", "noop", "rabbit"}, Brokers : {DefaultBrokers},
      Topic : {"", KafkaTopic}, Group : {DefaultGroup} ]

NoClient == "none"

\* fx calls config.New: on an error the application does not come up
LoadConfig ==
    /\ boot = "env"
    /\ LET r == ConfigNew(env)
       IN /\ cfg' = r.cfg
          /\ bootErr' = r.err
          /\ boot' = IF r.err = NoError THEN "config" ELSE "failed"
    /\ UNCHANGED << client, clientTopic, env, params, registrations, lifeVars, loopVars,
                    brokerVars, stopVars, pubResults, startCtxDone >>

\* fx calls NewClient with the Config: noop, kafka, or an error for any other driver
BuildClient ==
    /\ boot = "config"
    /\ IF ~cfg.Enabled \/ cfg.Driver = "noop"
       THEN /\ client' = "noop"
            /\ clientTopic' = cfg.Topic
            /\ boot' = "ready"
            /\ UNCHANGED bootErr
       ELSE IF cfg.Driver = "kafka"
       THEN /\ client' = "kafka"
            /\ clientTopic' = cfg.Topic
            /\ boot' = "ready"
            /\ UNCHANGED bootErr
       ELSE /\ bootErr' = "unsupported messaging driver"
            /\ boot' = "failed"
            /\ UNCHANGED << client, clientTopic >>
    /\ UNCHANGED << cfg, env, params, registrations, lifeVars, loopVars, brokerVars,
                    stopVars, pubResults, startCtxDone >>

\* the context a start call was given is cancelled or expires (at any time
\* from the call on: Engine.start never reads its ctx parameter)
StartCtxExpire ==
    /\ \E g \in 1 .. starts :
          /\ g \notin startCtxDone
          /\ startCtxDone' = startCtxDone \cup {g}
    /\ UNCHANGED << cfg, client, params, registrations, bootVars, lifeVars, loopVars,
                    brokerVars, stopVars, pubResults >>

\* the process before construction: an environment for config.New, or a Config
\* literal for NewClient
InitBoot ==
    /\ \/ env \in Envs /\ boot = "env" /\ cfg = ZeroConfig
       \/ env = NoEnv /\ boot = "config" /\ cfg \in DirectConfigs
    /\ bootErr = NoError
    /\ client = NoClient
    /\ clientTopic = ""
    /\ params = << Reg(KafkaTopic, "h1") >>
    /\ registrations = NewEngine(params)
    /\ cancel = 0
    /\ wg = 0
    /\ cancelled = {}
    /\ starts = 0
    /\ startResults = << >>
    /\ loopGen = << >>
    /\ loopWg = << >>
    /\ pc = << >>
    /\ cur = << >>
    /\ fetched = << >>
    /\ delivered = << >>
    /\ commits = << >>
    /\ backoff = << >>
    /\ timer = << >>
    /\ errs = << >>
    /\ callStart = << >>
    /\ logEnd = 0
    /\ readPos = 0
    /\ committed = 0
    /\ rebalances = 0
    /\ stopPc = "idle"
    /\ stopCtxDone = FALSE
    /\ startCtxDone = {}
    /\ stopResults = << >>
    /\ pubResults = << >>

\* the lifecycle hooks run only when every constructor succeeded
NextBoot ==
    \/ LoadConfig
    \/ BuildClient
    \/ boot = "ready" /\ Start
    \/ StartCtxExpire
    \/ boot = "ready" /\ \E expired \in BOOLEAN : StopCall(expired)
    \/ StopReturnDone
    \/ StopCtxExpire
    \/ StopReturnCtxErr
    \/ NoopPublish
    \/ \E w \in Loops : LoopTop(w)
    \/ \E w \in Loops : NoopConsumeReturn(w)
    \/ \E w \in Loops : FetchCancelled(w)

SpecBoot == InitBoot /\ [][NextBoot]_vars

(* C22: with the noop client every Publish returns nil and changes nothing
   else; Consume never calls the handler, has not returned while the context
   of its loop is live, and can return once that context is cancelled; Topic
   is the topic of the configuration. *)
C22_NoopClient ==
    /\ [](client = "noop" =>
            /\ clientTopic = cfg.Topic
            /\ \A i \in 1 .. Len(pubResults) : pubResults[i] = "nil"
            /\ \A w \in Loops :
                  /\ fetched[w] = << >>
                  /\ delivered[w] = << >>
                  /\ pc[w] = "done" => CtxDone(w)
                  /\ (pc[w] = "noopwait" /\ CtxDone(w)) => ENABLED NoopConsumeReturn(w))
    /\ [][ (client = "noop" /\ pubResults' # pubResults) =>
             UNCHANGED << engineVars, lifeVars, loopVars, brokerVars, stopVars >> ]_vars

\* the noop client was built from an environment that names the noop driver and
\* an empty topic, has published, and a loop has come back from Consume after
\* the stop
C22_Witness ==
    /\ client = "noop"
    /\ env # NoEnv
    /\ cfg.Enabled
    /\ clientTopic = ""
    /\ Len(pubResults) >= 1
    /\ \E w \in Loops : pc[w] = "done" /\ CtxDone(w)

\* the positions of the registrations in params that name topic t and are kept
RegistrationsOf(t) ==
    { i \in 1 .. Len(params) :
        params[i].Topic = t /\ params[i].Topic # "" /\ params[i].Handler # NilHandler }

(* C23: the registry maps a topic to the handler of the last registration that
   names it, whatever was registered for the topic before, and that is the
   handler the loops invoke for the topic's messages. *)
C23_LastRegistrationWins ==
    /\ \A i \in 1 .. Len(params) :
          RegistrationsOf(params[i].Topic) # {} => params[i].Topic \in DOMAIN registrations
    /\ \A t \in DOMAIN registrations :
          /\ RegistrationsOf(t) # {}
          /\ \E i \in RegistrationsOf(t) :
                /\ \A j \in RegistrationsOf(t) : j <= i
                /\ registrations[t] = params[i].Handler
                /\ t = KafkaTopic =>
                      \A w \in Loops : \A k \in Attempts(w) : delivered[w][k].h = params[i].Handler

\* two registrations for the topic: a message went to the handler of the second
C23_Witness ==
    /\ Cardinality(RegistrationsOf(KafkaTopic)) = 2
    /\ \E w \in Loops : \E k \in Attempts(w) :
          delivered[w][k].h = params[2].Handler /\ delivered[w][k].res = "ok"

(* C24: a stop call cancels one thing, the run-context of the latest start;
   every loop of that start observes it (at the top of its for loop it
   returns instead of calling Consume), and a loop has returned only when the
   context of all loops of its start is cancelled. *)
C24_SharedCancellation ==
    /\ [](\A w \in Loops : pc[w] = "done" =>
            \A v \in Loops : loopGen[v] = loopGen[w] => loopGen[v] \in cancelled)
    /\ [][ /\ cancelled' # cancelled =>
               cancel # 0 /\ cancelled' = cancelled \cup {cancel}
           /\ \A w \in Loops :
                 (loopGen[w] \in cancelled /\ pc[w] = "top" /\ pc'[w] # "top") =>
                    pc'[w] = "done" ]_vars

\* both loops of a start were caught by the stop: one has returned from the top
\* of its for loop, the other is still in its handler
C24_Witness ==
    \E w, v \in Loops :
        /\ w # v
        /\ loopGen[w] = loopGen[v]
        /\ loopGen[w] \in cancelled
        /\ pc[w] = "done" /\ fetched[w] = << >>
        /\ pc[v] = "handler"

\* the handler invocations of loop w that have not returned
InFlight(w) == { k \in Attempts(w) : delivered[w][k].res = "run" }

(* C25: a worker loop has at most one message between fetch and commit and at
   most one handler invocation running, so the invocations in flight are never
   more than the loops spawned, and among the loops of one start never more
   than the configured concurrency. *)
C25_BoundedConcurrency ==
    /\ \A w \in Loops :
          /\ Cardinality(InFlight(w)) <= 1
          /\ InFlight(w) # {} => pc[w] = "handler"
          /\ Len(fetched[w]) <= Len(delivered[w]) + 1
    /\ Cardinality({ w \in Loops : InFlight(w) # {} }) <= Len(pc)
    /\ \A g \in 1 .. starts :
          Cardinality(UNION { {<< w, k >> : k \in InFlight(w)} : w \in LoopsOf(g) })
              <= EffectiveConcurrency(cfg.Concurrency)

\* concurrency 2: both loops of the start have a handler running
C25_Witness ==
    /\ cfg.Concurrency = 2
    /\ Cardinality(LoopsOf(1)) = 2
    /\ \A w \in LoopsOf(1) : InFlight(w) # {}

(* C26: a handler that does not return holds up its own loop only: while a
   loop sits in its handler, every other loop can take its next step (fetch a
   waiting message, dispatch the one it holds, have its handler return,
   commit). *)
C26_BlockedHandlerStallsOwnLoop ==
    \A v \in Loops : pc[v] = "handler" =>
        \A w \in Loops \ {v} :
            /\ (pc[w] = "fetch" /\ readPos < logEnd) => ENABLED FetchMessage(w)
            /\ pc[w] = "dispatch" => ENABLED Dispatch(w)
            /\ pc[w] = "handler" => ENABLED HandlerReturn(w, TRUE)
            /\ pc[w] = "commit" => ENABLED CommitMessages(w, TRUE)

\* loop v is still in the handler of its first message; loop w has meanwhile
\* fetched, handled and committed a message that was published later
C26_Witness ==
    \E v, w \in Loops :
        /\ v # w
        /\ loopGen[v] = loopGen[w]
        /\ pc[v] = "handler"
        /\ Len(delivered[v]) = 1
        /\ \E i \in 1 .. Len(commits[w]) :
              commits[w][i].ok /\ commits[w][i].off > delivered[v][1].off

\* the environment selects the kafka driver (messaging enabled)
KafkaSelected(e) == e.Enabled /\ getEnv(e.Driver, DefaultDriver) = "kafka"

\* KAFKA_BROKERS is set and names no broker
EmptyBrokerList(e) ==
    e.Brokers.set /\ \A i \in 1 .. Len(e.Brokers.parts) : e.Brokers.parts[i] = ""

\* construction failed: an error was returned, no engine start, no worker loop
NothingStarted ==
    /\ boot = "failed"
    /\ bootErr # NoError
    /\ starts = 0
    /\ Loops = {}

(* C27: with the kafka driver selected, an empty broker list, an empty topic
   or an empty consumer group makes config.New return an error, and a driver
   other than kafka and noop makes construction return an error; then no
   engine is started and no worker loop is spawned. *)
C27_InvalidConfigPreventsStart ==
    /\ (env # NoEnv /\ boot # "env" /\ KafkaSelected(env)
          /\ (EmptyBrokerList(env) \/ env.Topic = "" \/ env.Group = ""))
            => NothingStarted
    /\ (env # NoEnv /\ boot # "env" /\ env.Enabled
          /\ getEnv(env.Driver, DefaultDriver) \notin {"kafka", "noop"})
            => NothingStarted
    /\ (env = NoEnv /\ boot # "config" /\ cfg.Enabled
          /\ cfg.Driver \notin {"kafka", "noop"})
            => NothingStarted

\* the lifecycle state of the engine, read off e.cancel, the run-context it
\* cancels and the loops of the wait group
EngineState ==
    IF cancel = 0 THEN "Idle"
    ELSE IF cancel \notin cancelled THEN "Running"
    ELSE IF WaitGroupDone THEN "Stopped"
    ELSE "Draining"

(* C28: the engine moves Idle -> Running -> Draining -> Stopped and never
   back: it becomes Running only from Idle, so never again after a stop and
   at most once. *)
C28_LifecycleForwardOnly ==
    [][ (EngineState # "Running" /\ EngineState' = "Running") =>
            EngineState = "Idle" ]_vars

(* C29: the context a handler is invoked with is the run-context of its loop:
   whenever stop has cancelled the run-context, the context of every handler
   in flight is cancelled, and no handler holds a context that is live while
   the run-context of its loop is not. *)
C29_HandlerContextIsRunContext ==
    \A w \in Loops : \A k \in Attempts(w) :
        delivered[w][k].h # NoHandler =>
            /\ delivered[w][k].ctx = loopGen[w]
            /\ (CtxDone(w) /\ k \in InFlight(w)) => delivered[w][k].ctx \in cancelled

\* stop has cancelled the run-context while a handler is in flight
C29_Witness ==
    \E w \in Loops :
        /\ InFlight(w) # {}
        /\ CtxDone(w)
        /\ stopPc = "waiting"
        /\ \A k \in InFlight(w) : delivered[w][k].ctx \in cancelled

(* C30: the registry is what NewEngine built from the registrations and no
   step of the engine or of a worker loop changes it. *)
C30_RegistryImmutable ==
    /\ [](registrations = NewEngine(params))
    /\ [][registrations' = registrations]_vars

\* after two starts, a stop and lookups with and without a hit by two loops
C30_Witness ==
    /\ starts = 2
    /\ Len(stopResults) = 1
    /\ registrations = NewEngine(params)
    /\ \A w \in Loops : Len(delivered[w]) >= 1
    /\ Len(pc) = 2

(* C31: after two starts with no stop between them, a stop that returns nil
   leaves no worker loop running: every loop of either start has had its
   run-context cancelled and has returned. *)
C31_StopAfterDoubleStart ==
    [][ (StopReturns("nil") /\ starts = 2 /\ Len(stopResults) = 0) =>
          \A w \in Loops : loopGen[w] \in cancelled /\ pc[w] = "done" ]_vars

(* C32: stop is idempotent. After a stop that returned nil, with no start that
   spawned loops since, a further stop called with a live context spawns no
   loop, changes no loop and cancels nothing new; it returns nil at once or
   finds the wait group already released, and a stop waiting on a released
   wait group can return nil and, its context live, returns nothing else. *)
C32_StopIdempotent ==
    /\ [][ LET again == /\ stopPc = "idle"
                        /\ Len(stopResults) >= 1
                        /\ stopResults[Len(stopResults)] = "nil"
                        /\ cancel \in cancelled \cup {0}
               called == stopPc' = "waiting" \/ Len(stopResults') > Len(stopResults)
           IN (again /\ called /\ ~stopCtxDone') =>
                 /\ loopVars' = loopVars
                 /\ cancelled' = cancelled
                 /\ Len(pc') = Len(pc)
                 /\ StopReturns("nil") \/ (stopPc' = "waiting" /\ WaitGroupDone') ]_vars
    /\ [][ (stopPc = "waiting" /\ WaitGroupDone /\ ~stopCtxDone' /\ stopPc' = "idle") =>
             StopReturns("nil") ]_vars
    /\ [](stopPc = "waiting" /\ WaitGroupDone => ENABLED StopReturnDone)

\* start, a stop that drained the loops and returned nil, and a second stop
\* that returned nil as well
C32_Witness ==
    /\ Loops # {}
    /\ \A w \in Loops : pc[w] = "done"
    /\ stopResults = << "nil", "nil" >>
    /\ starts = 1
    /\ stopPc = "idle"

(* C33: the run-context of the worker loops does not depend on the context
   start was given. The end of a start context cancels no run-context and
   moves no loop; a run-context is cancelled only by a step of stop, which
   cancels the one of the latest start; and a loop that has returned has a
   run-context that a stop call cancelled. *)
C33_RunContextIndependent ==
    /\ [][ startCtxDone' # startCtxDone =>
             (cancelled' = cancelled /\ loopVars' = loopVars) ]_vars
    /\ [][ cancelled' # cancelled =>
             /\ stopPc = "idle" /\ stopPc' = "waiting"
             /\ cancelled' = cancelled \cup {cancel} ]_vars
    /\ [](\A w \in Loops :
            pc[w] = "done" => (loopGen[w] \in cancelled /\ StopCalls >= 1))

\* the context of the start is done, no stop was called, and a loop of that
\* start is inside Consume with a live run-context
C33_Witness ==
    \E w \in Loops :
        /\ loopGen[w] \in startCtxDone
        /\ StopCalls = 0
        /\ ~CtxDone(w)
        /\ pc[w] \in {"fetch", "noopwait"}

(* C34: a worker loop whose run-context is cancelled while it is in the backoff
   wait of consumeLoop, or is found cancelled at the top of the for loop,
   returns without another Consume call: from either place it only moves to
   the top of the loop or out of it, and fetches nothing. *)
C34_NoConsumeAfterBackoffCancel ==
    [][ \A w \in Loops :
          (CtxDone(w) /\ pc[w] \in {"backoff", "top"}) =>
             /\ pc'[w] \in {"backoff", "top", "done"}
             /\ fetched'[w] = fetched[w]
             /\ callStart'[w] = callStart[w] ]_vars

\* one loop has left its first backoff wait through ctx.Done (the wait never
\* elapsed: the backoff was not doubled), another one, cancelled as well, is
\* back at the top of the for loop after its wait elapsed
C34_Witness ==
    \E w, v \in Loops :
        /\ pc[w] = "done" /\ errs[w] = 1 /\ backoff[w] = BackoffFloor
        /\ pc[v] = "top" /\ errs[v] >= 1 /\ CtxDone(v)

(* C35: NewEngine drops the registrations with an empty topic or a nil handler
   and keeps the others: the registry has no empty-topic key and no nil
   handler, every entry comes from a registration, every valid registration
   has its topic in it, and an engine whose registrations are all invalid has
   an empty registry and starts as a no-op: no loop, no run-context, result nil. *)
C35_InvalidRegistrationsDropped ==
    LET valid(i) == params[i].Topic # "" /\ params[i].Handler # NilHandler
    IN /\ "" \notin DOMAIN registrations
       /\ \A t \in DOMAIN registrations :
            /\ registrations[t] # NilHandler
            /\ \E i \in 1 .. Len(params) :
                  valid(i) /\ params[i].Topic = t /\ params[i].Handler = registrations[t]
       /\ \A i \in 1 .. Len(params) : valid(i) => params[i].Topic \in DOMAIN registrations
       /\ (\A i \in 1 .. Len(params) : ~valid(i)) =>
            /\ DOMAIN registrations = {}
            /\ Loops = {}
            /\ cancel = 0 /\ wg = 0
            /\ \A k \in 1 .. Len(startResults) : startResults[k] = "nil"

\* messaging and workers enabled, two registrations, both invalid (an empty
\* topic, a nil handler): start was called, returned nil and spawned nothing
C35_Witness ==
    /\ Len(params) = 2
    /\ \A i \in 1 .. Len(params) : params[i].Topic = "" \/ params[i].Handler = NilHandler
    /\ cfg.Enabled /\ cfg.WorkersEnabled
    /\ starts >= 1
    /\ startResults[1] = "nil"
    /\ Loops = {}

(* C36: with two or more loops of one start consuming through the one shared
   reader, commits follow the offset order of the partition: no loop calls
   CommitMessages for an offset j while another loop of the start holds a
   lower offset between its fetch and its commit, or has had the handler of a
   lower offset fail with no successful commit of that offset since. *)
C36_CommitsInOffsetOrder ==
    [][ \A w \in Loops :
          Len(commits'[w]) > Len(commits[w]) =>
             \A v \in Loops \ {w} :
                loopGen[v] = loopGen[w] =>
                   /\ ~(cur[v] # NoMsg /\ cur[v] < cur[w])
                   /\ \A k \in Attempts(v) :
                         (delivered[v][k].res = "err" /\ delivered[v][k].off < cur[w]) =>
                            \E x \in CommitCallsOf(delivered[v][k].off) :
                               commits[x[1]][x[2]].ok ]_vars

(* C37: after its run-context is cancelled a worker loop completes at most one
   more handler invocation, the one in flight: once a handler is running with
   the run-context cancelled, no later handler invocation of the loop returns
   before Consume returns the cancellation error. *)
C37_AtMostOneHandlerAfterCancel ==
    \A w \in 1 .. MaxLoops : \A n \in 1 .. MaxMsgs :
        []((w \in Loops /\ CtxDone(w) /\ pc[w] = "handler" /\ Len(delivered[w]) = n)
             => [](w \in Loops =>
                     \A k \in Attempts(w) : k > n => delivered[w][k].res = "run"))

(* C38: with the kafka or the noop client Consume returns nothing but the
   cancellation (or deadline) error: no worker loop is ever in the backoff
   wait of consumeLoop, none has counted an error from Consume or raised its
   backoff, and none comes back to the top of the for loop once it has called
   Consume, so each loop calls Consume at most once. *)
C38_BackoffNeverReached ==
    /\ [](\A w \in Loops :
            /\ client \in {"kafka", "noop"}
            /\ pc[w] # "backoff"
            /\ errs[w] = 0
            /\ backoff[w] = BackoffFloor)
    /\ [][ \A w \in Loops : pc[w] # "top" => pc'[w] # "top" ]_vars

\* a kafka loop has handled a message and then got a failed fetch: it pauses
\* inside Consume, with no error counted by consumeLoop
C38_Witness ==
    \E w \in Loops :
        /\ client = "kafka"
        /\ pc[w] = "sleep"
        /\ timer[w] = FetchRetryPause
        /\ Len(delivered[w]) >= 1
        /\ errs[w] = 0

(* C39: the counter of the wait group e.wg is the number of worker loops of
   the current start that have not returned, so the wait of stop is over
   exactly when all of them have returned. *)
C39_WaitGroupCountsCurrentLoops ==
    WaitGroupCounter = Cardinality({ w \in LoopsOf(wg) : pc[w] # "done" })
====
